---- MODULE Spec2Model ----
(***************************************************************************)
(* local-nekos-best: the intent gate (callNekoIntent), the selection       *)
(* engine (callNeko) and the read-only operations (callNekoActions,        *)
(* callNekoCount, callNekoLoad) of main/main.cjs, as a state machine.      *)
(*                                                                         *)
(* JavaScript values that the code inspects dynamically are tagged         *)
(* records: [undefined |-> TRUE], [null |-> TRUE], [num |-> n],            *)
(* [str |-> s], [bool |-> b], [arr |-> <<...>>], [fn |-> name].            *)
(* Strings the code only compares or concatenates (category names, field   *)
(* names, urls) are TLA+ strings; strings it scans character by character  *)
(* (artist_name, anime_name, search terms) are sequences of characters.    *)
(***************************************************************************)
EXTENDS Integers, Sequences, FiniteSets, TLC

VARIABLES
    intentConfig,   \* module variable intentConfig
    intentLocked,   \* module variable intentLocked
    rawGifsData,    \* module variable rawGifsData (the parsed data.json, or null)
    gifsData,       \* module variable gifsData (category -> records)
    pc,             \* "idle": no call running; "random": inside the draw loop
                    \* of selectRandomMode; "done": a call has just returned
    call,           \* the running / last call: its operation and its arguments
    ret,            \* what the last call returned or threw
    frame,          \* locals of the running callNeko (parseOptions' result and
                    \* the locals of selectRandomMode's loop)
    configuredWith, \* history: the options of the callNekoIntent call that
                    \* succeeded, undefined before it
    intentCalls     \* the callers that each have one callNekoIntent call to
                    \* make: the call's options and, once made, its outcome

vars ==
    <<intentConfig, intentLocked, rawGifsData, gifsData, pc, call, ret, frame,
      configuredWith, intentCalls>>

\* the module variables of main.cjs
gate == <<intentConfig, intentLocked, rawGifsData, gifsData>>

----------------------------------------------------------------------------
(* JavaScript values *)

Undefined == [undefined |-> TRUE]
Null == [null |-> TRUE]
Num(n) == [num |-> n]
Str(s) == [str |-> s]
Bool(b) == [bool |-> b]
Arr(a) == [arr |-> a]
Fn(name) == [fn |-> name]
NaN == [nan |-> TRUE]
Infinity == [infinity |-> TRUE]
\* a number with a fractional part: h halves (1.5 is Half(3), 2 is Half(4))
Half(h) == [halves |-> h]

IsNum(v) == DOMAIN v = {"num"}
IsStr(v) == DOMAIN v = {"str"}
IsArr(v) == DOMAIN v = {"arr"}
IsHalf(v) == DOMAIN v = {"halves"}

\* own and inherited properties every object literal has (Object.prototype)
ObjectPrototypeKeys ==
    {"constructor", "toString", "valueOf", "hasOwnProperty", "isPrototypeOf",
     "propertyIsEnumerable", "toLocaleString", "__proto__"}

\* the property key a value is coerced to in obj[value]
ToPropertyKey(v) ==
    IF IsNum(v) THEN ToString(v.num)
    ELSE IF IsStr(v) THEN v.str
    ELSE IF v = Undefined THEN "undefined"
    ELSE "null"

\* obj[key] on an object literal: own property, else Object.prototype's
GetProperty(obj, key) ==
    IF ToPropertyKey(key) \in DOMAIN obj THEN obj[ToPropertyKey(key)]
    ELSE IF ToPropertyKey(key) \in ObjectPrototypeKeys THEN Fn(ToPropertyKey(key))
    ELSE Undefined

RECURSIVE SeqToSet(_)
SeqToSet(s) == IF s = <<>> THEN {} ELSE {Head(s)} \cup SeqToSet(Tail(s))

Includes(s, x) == \E i \in 1..Len(s) : s[i] = x

----------------------------------------------------------------------------
(* Constants of main.cjs *)

VALID_ACTIONS ==
    <<"angry", "baka", "bite", "blush", "bored", "cry", "cuddle", "dance",
      "facepalm", "feed", "handhold", "handshake", "happy", "highfive", "hug",
      "husbando", "kick", "kiss", "kitsune", "laugh", "lurk", "neko", "nod",
      "nom", "nope", "pat", "peck", "poke", "pout", "punch", "run", "shoot",
      "shrug", "slap", "sleep", "smile", "smug", "stare", "think", "thumbsup",
      "tickle", "waifu", "wave", "wink", "yawn", "yeet">>

IMAGE_CATEGORIES == {"husbando", "kitsune", "neko", "waifu"}

IMAGE == 1
GIF == 2
BOTH == 3

TYPE_ALIASES ==
    [k \in {"1", "2", "3", "image", "images", "gif", "gifs", "both"} |->
        CASE k \in {"1", "image", "images"} -> Num(IMAGE)
          [] k \in {"2", "gif", "gifs"} -> Num(GIF)
          [] OTHER -> Num(BOTH)]

RANDOM == "random"
DISTRIBUTED == "distributed"
EACH == "each"

MODE_ALIASES ==
    [k \in {"1", "2", "3", "random", "distributed", "each"} |->
        CASE k \in {"1", "random"} -> Str(RANDOM)
          [] k \in {"2", "distributed"} -> Str(DISTRIBUTED)
          [] OTHER -> Str(EACH)]

MAX_RETRY_ATTEMPTS == 50

BASE_URL == "https://nekos.best/api/v2"

METADATA_FIELDS_IMAGE == <<"artist_href", "artist_name", "source_url">>
METADATA_FIELDS_GIF == <<"anime_name">>

----------------------------------------------------------------------------
(* The catalog: data.json as parsed at module load.  The file is an input  *)
(* of the program; this one has two animated categories with records, one  *)
(* image category with records, one image category with an empty list, and *)
(* no entry for the other categories.  Some records lack optional fields.  *)

DATA ==
    [c \in {"hug", "pat", "waifu", "neko"} |->
        CASE c = "hug" ->
                <<[url |-> "/hug/1.gif", anime_name |-> Str(<<"A", "b">>)],
                  [url |-> "/hug/2.gif"]>>
          [] c = "pat" ->
                <<[url |-> "/pat/1.gif", anime_name |-> Str(<<"b">>)]>>
          [] c = "waifu" ->
                <<[url |-> "/waifu/1.png", artist_name |-> Str(<<"a", "B">>),
                   artist_href |-> Str(<<"h">>), source_url |-> Str(<<"s">>)],
                  [url |-> "/waifu/2.png", artist_name |-> Str(<<"b">>)]>>
          [] OTHER -> <<>>]

\* item.field: undefined when the record has no such property
Field(item, f) == IF f \in DOMAIN item THEN item[f] ELSE Undefined

----------------------------------------------------------------------------
(* Helper functions *)

getContentType(category) ==
    IF category \in IMAGE_CATEGORIES THEN IMAGE ELSE GIF

constructFullUrl(filename) == BASE_URL \o filename

normalizeType(type) ==
    IF type = Undefined \/ type = Null THEN Num(BOTH)
    ELSE LET normalized == GetProperty(TYPE_ALIASES, type) IN
         IF normalized # Undefined THEN normalized
         ELSE IF type \in {Num(1), Num(2), Num(3)} THEN type
         ELSE Num(BOTH)

normalizeMode(mode) ==
    IF mode = Undefined \/ mode = Null THEN Str(RANDOM)
    ELSE LET normalized == GetProperty(MODE_ALIASES, mode) IN
         IF normalized # Undefined THEN normalized
         ELSE IF mode \in {Str(RANDOM), Str(DISTRIBUTED), Str(EACH)} THEN mode
         ELSE Str(RANDOM)

shouldIncludeMetadataField_all(field, category) == TRUE

shouldIncludeMetadataField(field, category) ==
    IF ~intentConfig.active THEN TRUE
    ELSE IF intentConfig.metadata = Null THEN
        IF getContentType(category) = IMAGE
        THEN Includes(METADATA_FIELDS_IMAGE, field)
        ELSE Includes(METADATA_FIELDS_GIF, field)
    ELSE IF Len(intentConfig.metadata.arr) = 0 THEN FALSE
    ELSE Includes(intentConfig.metadata.arr, field)

createResponseObject_omitAbsent(item, category) ==
    LET fields == IF category \in IMAGE_CATEGORIES
                  THEN {"artist_href", "artist_name", "source_url"}
                  ELSE {"anime_name"}
        kept == {f \in fields : shouldIncludeMetadataField(f, category)
                                /\ f \in DOMAIN item}
    IN  [k \in {"url", "action", "type"} \cup kept |->
            CASE k = "url" -> Str(constructFullUrl(item.url))
              [] k = "action" -> Str(category)
              [] k = "type" -> Num(getContentType(category))
              [] OTHER -> item[k]]

\* the object built from the fields kept: a kept field is assigned
\* item.<field>, which is undefined when the record lacks it
createResponseObject(item, category) ==
    LET fields == IF category \in IMAGE_CATEGORIES
                  THEN {"artist_href", "artist_name", "source_url"}
                  ELSE {"anime_name"}
        kept == {f \in fields : shouldIncludeMetadataField(f, category)}
    IN  [k \in {"url", "action", "type"} \cup kept |->
            CASE k = "url" -> Str(constructFullUrl(item.url))
              [] k = "action" -> Str(category)
              [] k = "type" -> Num(getContentType(category))
              [] OTHER -> Field(item, k)]

----------------------------------------------------------------------------
(* State *)

\* intentConfig.allowedCategories is a Set, which iterates in insertion
\* order: it is kept as the sequence of its members.  gifsData is kept as
\* the function from the keys whose value is defined: a key whose value is
\* undefined reads like no key at every use (gifsData[c] tested for truth).
Init ==
    /\ intentConfig = [active |-> FALSE, metadata |-> Null, type |-> Num(BOTH),
                       allowedCategories |-> VALID_ACTIONS]
    /\ intentLocked = FALSE
    /\ rawGifsData = [obj |-> DATA]
    /\ gifsData = DATA
    /\ pc = "idle"
    /\ call = [op |-> "none"]
    /\ ret = [kind |-> "none"]
    /\ frame = [mode |-> "none"]
    /\ configuredWith = Undefined
    /\ intentCalls = <<>>

Throw(error, reason) == [kind |-> "throw", error |-> error, reason |-> reason]
Return(value) == [kind |-> "return", value |-> value]

----------------------------------------------------------------------------
(* callNekoIntent *)

\* String.prototype.trim on the field names the model passes in
trim(f) ==
    CASE f = " anime_name " -> "anime_name"
      [] f = " " -> ""
      [] OTHER -> f

allValidFields == METADATA_FIELDS_IMAGE \o METADATA_FIELDS_GIF

IsInvalidField_never(f) == FALSE

IsInvalidField(f) == ~Includes(allValidFields, f)
IsGifField(f) == Includes(METADATA_FIELDS_GIF, f)
IsImageField(f) == Includes(METADATA_FIELDS_IMAGE, f)
NonEmpty(f) == f # ""

\* the allowed categories for a normalized type, in VALID_ACTIONS order
allowedCategoriesFor(normalizedType) ==
    LET allowed(action) ==
            normalizedType = Num(BOTH) \/ Num(getContentType(action)) = normalizedType
    IN  SelectSeq(VALID_ACTIONS, allowed)

requestedFieldsOf(metadata) ==
    SelectSeq([i \in DOMAIN metadata.arr |-> trim(metadata.arr[i])], NonEmpty)

normalizeMetadata_truthiness(metadata, normalizedType) ==
    IF metadata = Undefined \/ metadata = Null THEN <<"ok", Null>>
    ELSE IF IsArr(metadata) THEN
        LET requestedFields == requestedFieldsOf(metadata)
            invalidFields == SelectSeq(requestedFields, IsInvalidField)
        IN  IF Len(invalidFields) > 0 THEN <<"throw", "invalid metadata fields">>
            ELSE <<"ok",
                   Arr((IF normalizedType = Num(GIF) \/ normalizedType = Num(BOTH)
                        THEN SelectSeq(requestedFields, IsGifField) ELSE <<>>)
                       \o
                       (IF normalizedType = Num(IMAGE) \/ normalizedType = Num(BOTH)
                        THEN SelectSeq(requestedFields, IsImageField) ELSE <<>>))>>
    ELSE IF metadata \in {Num(0), Bool(FALSE), Str(""), NaN} THEN <<"ok", Arr(<<>>)>>
    ELSE <<"ok", Null>>

\* the metadata branch: <<"ok", metadataFields>> or <<"throw", reason>>
normalizeMetadata(metadata, normalizedType) ==
    IF metadata = Undefined \/ metadata = Null THEN <<"ok", Null>>
    ELSE IF metadata = Num(0) \/ metadata = Bool(FALSE) THEN <<"ok", Arr(<<>>)>>
    ELSE IF metadata = Num(1) \/ metadata = Bool(TRUE) THEN <<"ok", Null>>
    ELSE IF IsArr(metadata) THEN
        LET requestedFields == requestedFieldsOf(metadata)
            invalidFields == SelectSeq(requestedFields, IsInvalidField)
        IN  IF Len(invalidFields) > 0 THEN <<"throw", "invalid metadata fields">>
            ELSE <<"ok",
                   Arr((IF normalizedType = Num(GIF) \/ normalizedType = Num(BOTH)
                        THEN SelectSeq(requestedFields, IsGifField) ELSE <<>>)
                       \o
                       (IF normalizedType = Num(IMAGE) \/ normalizedType = Num(BOTH)
                        THEN SelectSeq(requestedFields, IsImageField) ELSE <<>>))>>
    ELSE <<"throw", "metadata shape">>

\* "all metadata" narrowed to the fields of the one type loaded
narrowMetadata(metadataFields, normalizedType) ==
    IF metadataFields = Null THEN
        IF normalizedType = Num(IMAGE) THEN Arr(METADATA_FIELDS_IMAGE)
        ELSE IF normalizedType = Num(GIF) THEN Arr(METADATA_FIELDS_GIF)
        ELSE Null
    ELSE metadataFields

\* gifsData rebuilt from rawGifsData for the allowed categories
rebuildData(allowedCategories) ==
    IF rawGifsData = Null THEN [c \in {} |-> <<>>]
    ELSE [c \in SeqToSet(allowedCategories) \cap DOMAIN rawGifsData.obj |->
            rawGifsData.obj[c]]

alreadyConfigured_unchecked == FALSE

lockIntent_skipped == FALSE

\* intentLocked = true
lockIntent == TRUE

\* if (intentLocked)
alreadyConfigured == intentLocked

callNekoIntent_lockFirst(options) ==
    /\ pc = "idle"
    /\ pc' = "done"
    /\ call' = [op |-> "callNekoIntent", args |-> options]
    /\ frame' = frame
    /\ IF alreadyConfigured THEN
          /\ ret' = Throw("ConfigurationError", "already configured")
          /\ UNCHANGED <<gate, configuredWith>>
       ELSE
          LET normalizedType == normalizeType(options.type)
              allowedCategories == allowedCategoriesFor(normalizedType)
              md == normalizeMetadata(options.metadata, normalizedType)
          IN  IF md[1] = "throw" THEN
                 /\ ret' = Throw("ConfigurationError", md[2])
                 /\ intentLocked' = lockIntent
                 /\ UNCHANGED <<intentConfig, rawGifsData, gifsData, configuredWith>>
              ELSE
                 /\ intentConfig' =
                        [active |-> TRUE,
                         metadata |-> narrowMetadata(md[2], normalizedType),
                         type |-> normalizedType,
                         allowedCategories |-> allowedCategories]
                 /\ intentLocked' = lockIntent
                 /\ gifsData' = rebuildData(allowedCategories)
                 /\ rawGifsData' = Null
                 /\ ret' = Return(Undefined)
                 /\ configuredWith' = options

\* rawGifsData[category] throws a TypeError when rawGifsData is null
callNekoIntent(options) ==
    /\ pc = "idle"
    /\ pc' = "done"
    /\ call' = [op |-> "callNekoIntent", args |-> options]
    /\ frame' = frame
    /\ IF alreadyConfigured THEN
          /\ ret' = Throw("ConfigurationError", "already configured")
          /\ UNCHANGED <<gate, configuredWith>>
       ELSE
          LET normalizedType == normalizeType(options.type)
              allowedCategories == allowedCategoriesFor(normalizedType)
              md == normalizeMetadata(options.metadata, normalizedType)
          IN  IF md[1] = "throw" THEN
                 /\ ret' = Throw("ConfigurationError", md[2])
                 /\ UNCHANGED <<gate, configuredWith>>
              ELSE
                 /\ intentConfig' =
                        [active |-> TRUE,
                         metadata |-> narrowMetadata(md[2], normalizedType),
                         type |-> normalizedType,
                         allowedCategories |-> allowedCategories]
                 /\ intentLocked' = lockIntent
                 /\ IF rawGifsData = Null /\ Len(allowedCategories) > 0 THEN
                       /\ gifsData' = [c \in {} |-> <<>>]
                       /\ rawGifsData' = rawGifsData
                       /\ ret' = Throw("TypeError", "rawGifsData is null")
                       /\ configuredWith' = configuredWith
                    ELSE
                       /\ gifsData' = rebuildData(allowedCategories)
                       /\ rawGifsData' = Null
                       /\ ret' = Return(Undefined)
                       /\ configuredWith' = options

----------------------------------------------------------------------------
(* callNekoActions, callNekoCount, callNekoLoad *)

visibleCategories_ignoreIntent == VALID_ACTIONS

\* intentConfig.active ? Array.from(intentConfig.allowedCategories) : VALID_ACTIONS
visibleCategories ==
    IF intentConfig.active THEN intentConfig.allowedCategories ELSE VALID_ACTIONS

callNekoActions ==
    /\ pc = "idle"
    /\ pc' = "done"
    /\ call' = [op |-> "callNekoActions"]
    /\ ret' = Return(visibleCategories)
    /\ UNCHANGED <<gate, frame, configuredWith, intentCalls>>

HasData(category) == category \in DOMAIN gifsData

\* entries sorted by descending count; Array.prototype.sort is stable
RECURSIVE insertByCount(_, _)
insertByCount(e, sorted) ==
    IF sorted = <<>> THEN <<e>>
    ELSE IF Head(sorted)[2] >= e[2] THEN <<Head(sorted)>> \o insertByCount(e, Tail(sorted))
    ELSE <<e>> \o sorted

RECURSIVE sortByCount(_)
sortByCount(entries) ==
    IF entries = <<>> THEN <<>>
    ELSE insertByCount(entries[Len(entries)], sortByCount(SubSeq(entries, 1, Len(entries) - 1)))

RECURSIVE sumCounts(_)
sumCounts(entries) ==
    IF entries = <<>> THEN 0 ELSE Head(entries)[2] + sumCounts(Tail(entries))

countEntry(action) == <<action, Len(gifsData[action])>>

\* stats.categories is kept as the sequence of its [key, value] entries
callNekoCount ==
    LET listed == SelectSeq(visibleCategories, HasData)
        entries == [i \in DOMAIN listed |-> countEntry(listed[i])] IN
    /\ pc = "idle"
    /\ pc' = "done"
    /\ call' = [op |-> "callNekoCount"]
    /\ ret' = Return([total |-> sumCounts(entries), categories |-> sortByCount(entries)])
    /\ UNCHANGED <<gate, frame, configuredWith, intentCalls>>

loadCategory(category) ==
    LET respond(item) == createResponseObject(item, category)
    IN  [i \in DOMAIN gifsData[category] |-> respond(gifsData[category][i])]

callNekoLoad_releasing ==
    /\ pc = "idle"
    /\ pc' = "done"
    /\ call' = [op |-> "callNekoLoad"]
    /\ ret' = Return([c \in SeqToSet(SelectSeq(visibleCategories, HasData)) |-> loadCategory(c)])
    /\ rawGifsData' = Null
    /\ UNCHANGED <<intentConfig, intentLocked, gifsData, frame, configuredWith, intentCalls>>

callNekoLoad ==
    /\ pc = "idle"
    /\ pc' = "done"
    /\ call' = [op |-> "callNekoLoad"]
    /\ ret' = Return([c \in SeqToSet(SelectSeq(visibleCategories, HasData)) |-> loadCategory(c)])
    /\ UNCHANGED <<gate, frame, configuredWith, intentCalls>>

----------------------------------------------------------------------------
(* parseOptions and the normalizers *)

\* the characters of the model's texts, and String.prototype.toLowerCase
toLowerCaseChar(ch) ==
    CASE ch = "A" -> "a"
      [] ch = "B" -> "b"
      [] OTHER -> ch

toLowerCase(text) == [i \in DOMAIN text |-> toLowerCaseChar(text[i])]

RECURSIVE trimStart(_)
trimStart(text) ==
    IF text # <<>> /\ Head(text) = " " THEN trimStart(Tail(text)) ELSE text

RECURSIVE trimEnd(_)
trimEnd(text) ==
    IF text # <<>> /\ text[Len(text)] = " "
    THEN trimEnd(SubSeq(text, 1, Len(text) - 1))
    ELSE text

trimText(text) == trimEnd(trimStart(text))

\* String.prototype.includes
includesText(text, term) ==
    \E i \in 1..(Len(text) - Len(term) + 1) :
        SubSeq(text, i, i + Len(term) - 1) = term

\* typeof amount === "number", Number.isFinite(amount), amount >= 1
IsValidAmount(amount) ==
    \/ IsNum(amount) /\ amount.num >= 1
    \/ IsHalf(amount) /\ amount.halves >= 2

\* Math.floor(amount)
floorAmount(amount) ==
    IF IsNum(amount) THEN amount.num ELSE amount.halves \div 2

IsInvalidAction(a) == ~Includes(VALID_ACTIONS, a)

ViolatesIntent_never(action) == FALSE

\* validateIntentAction throws for this action
ViolatesIntent(action) ==
    intentConfig.active /\ ~Includes(intentConfig.allowedCategories, action)

\* <<"ok", actions>> or <<"throw", error, reason>>
normalizeActions(actions) ==
    IF actions = Undefined \/ actions = Null THEN
        <<"ok", IF intentConfig.active THEN intentConfig.allowedCategories
                ELSE VALID_ACTIONS>>
    ELSE LET actionArray == IF IsArr(actions) THEN actions.arr ELSE <<actions.str>>
         IN  IF Len(SelectSeq(actionArray, IsInvalidAction)) > 0
             THEN <<"throw", "ValidationError", "invalid actions">>
             ELSE IF \E i \in 1..Len(actionArray) : ViolatesIntent(actionArray[i])
             THEN <<"throw", "IntentViolationError", "action not in intent">>
             ELSE <<"ok", actionArray>>

NonEmptyText(text) == text # <<>>

normalizeSearch(search) ==
    IF search = Undefined \/ search = Null \/ search = Str(<<>>) THEN <<>>
    ELSE LET searchArray == IF IsArr(search) THEN search.arr ELSE <<search.str>>
         IN  SelectSeq([i \in DOMAIN searchArray |-> trimText(searchArray[i])],
                       NonEmptyText)

matchesContentType(category, contentType) ==
    IF contentType = Num(BOTH) THEN TRUE
    ELSE Num(getContentType(category)) = contentType

matchesSearch_all(item, category, searchTerms) == TRUE

matchesSearch(item, category, searchTerms) ==
    IF Len(searchTerms) = 0 THEN TRUE
    ELSE LET searchField == IF category \in IMAGE_CATEGORIES
                            THEN Field(item, "artist_name")
                            ELSE Field(item, "anime_name")
         IN  IF searchField = Undefined \/ searchField = Str(<<>>) THEN FALSE
             ELSE \E i \in 1..Len(searchTerms) :
                    includesText(toLowerCase(searchField.str),
                                 toLowerCase(searchTerms[i]))

\* the categories kept by validateAndFilterCategories (it throws when none)
validateAndFilterCategories(categories, contentType) ==
    LET matches(cat) == matchesContentType(cat, contentType)
    IN  SelectSeq(categories, matches)

\* Boolean(dupe)
ToBoolean(v) == v = Bool(TRUE)

\* [throw |-> FALSE, amount, actions, search, type, mode, dupe] or
\* [throw |-> TRUE, error, reason]
parseOptions(options) ==
    LET amount == IF options.amount = Undefined THEN Num(1) ELSE options.amount
        normalizedActions == normalizeActions(options.actions)
        normalizedType == normalizeType(options.type)
    IN  IF ~IsValidAmount(amount)
        THEN [throw |-> TRUE, error |-> "ValidationError", reason |-> "amount"]
        ELSE IF normalizedActions[1] = "throw"
        THEN [throw |-> TRUE, error |-> normalizedActions[2],
              reason |-> normalizedActions[3]]
        ELSE IF Len(validateAndFilterCategories(normalizedActions[2], normalizedType)) = 0
        THEN [throw |-> TRUE, error |-> "ValidationError",
              reason |-> "no categories match content type"]
        ELSE [throw |-> FALSE,
              amount |-> floorAmount(amount),
              actions |-> validateAndFilterCategories(normalizedActions[2], normalizedType),
              search |-> normalizeSearch(options.search),
              type |-> normalizedType,
              mode |-> normalizeMode(options.mode),
              dupe |-> ToBoolean(options.dupe)]

----------------------------------------------------------------------------
(* The selection engine *)

\* filteredMap.get(category): the records of the category matching the search
filteredItems(category, searchTerms) ==
    LET matches(item) == matchesSearch(item, category, searchTerms)
    IN  SelectSeq(gifsData[category], matches)

\* Array.from(filteredMap.keys()): a Map keeps the first insertion's place
RECURSIVE filteredKeys(_, _, _)
filteredKeys(categories, searchTerms, seen) ==
    IF categories = <<>> THEN <<>>
    ELSE LET category == Head(categories)
             keep == /\ category \in DOMAIN gifsData
                     /\ Len(filteredItems(category, searchTerms)) > 0
                     /\ category \notin seen
         IN  (IF keep THEN <<category>> ELSE <<>>)
             \o filteredKeys(Tail(categories), searchTerms, seen \cup {category})

buildSearchFilteredCategories_perName(categories, searchTerms) ==
    LET kept(category) == /\ category \in DOMAIN gifsData
                          /\ Len(filteredItems(category, searchTerms)) > 0
    IN  SelectSeq(categories, kept)

buildSearchFilteredCategories(categories, searchTerms) ==
    filteredKeys(categories, searchTerms, {})

\* the partial Fisher-Yates shuffle: rs[i + 1] is the value of
\* Math.floor(Math.random() * (available - i)) in iteration i
RECURSIVE fisherYates(_, _, _, _)
fisherYates(indices, i, actualCount, rs) ==
    IF i >= actualCount THEN <<>>
    ELSE LET randomIndex == i + rs[i + 1]
             swapped == [indices EXCEPT ![i + 1] = indices[randomIndex + 1],
                                        ![randomIndex + 1] = indices[i + 1]]
         IN  <<swapped[i + 1]>> \o fisherYates(swapped, i + 1, actualCount, rs)

Min(a, b) == IF a <= b THEN a ELSE b

getRandomItems_withReplacement(items, count, category, allowDuplicates) ==
    IF Len(items) = 0 THEN {<<>>}
    ELSE {[i \in 1..count |-> createResponseObject(items[r[i] + 1], category)] :
            r \in [1..count -> 0..(Len(items) - 1)]}

getRandomItems_alwaysShuffled(items, count, category, allowDuplicates) ==
    LET available == Len(items)
        respond(item) == createResponseObject(item, category)
        actualCount == Min(count, available)
    IN  IF available = 0 THEN {<<>>}
        ELSE IF allowDuplicates THEN
            {[i \in 1..count |-> respond(items[r[i] + 1])] :
                r \in [1..count -> 0..(available - 1)]}
        ELSE
            {[k \in 1..actualCount |->
                respond(items[fisherYates([j \in 1..available |-> j - 1], 0,
                                          actualCount, rs)[k] + 1])] :
                rs \in {r \in [1..actualCount -> 0..(available - 1)] :
                            \A i \in 1..actualCount : r[i] < available - (i - 1)}}

\* the set of results getRandomItems can return, one per outcome of the
\* Math.random() calls
getRandomItems(items, count, category, allowDuplicates) ==
    LET available == Len(items)
        respond(item) == createResponseObject(item, category)
        actualCount == Min(count, available)
    IN  IF available = 0 THEN {<<>>}
        ELSE IF ~allowDuplicates /\ count >= available THEN
            {[i \in DOMAIN items |-> respond(items[i])]}
        ELSE IF allowDuplicates THEN
            {[i \in 1..count |-> respond(items[r[i] + 1])] :
                r \in [1..count -> 0..(available - 1)]}
        ELSE
            {[k \in 1..actualCount |->
                respond(items[fisherYates([j \in 1..available |-> j - 1], 0,
                                          actualCount, rs)[k] + 1])] :
                rs \in {r \in [1..actualCount -> 0..(available - 1)] :
                            \A i \in 1..actualCount : r[i] < available - (i - 1)}}

categoryAmount_inclusive(amount, n, index) ==
    IF index <= amount % n THEN (amount \div n) + 1 ELSE amount \div n

\* the amount selectDistributedMode asks of the category at index (0-based)
categoryAmount(amount, n, index) ==
    IF index < amount % n THEN (amount \div n) + 1 ELSE amount \div n

\* the results of pushing getRandomItems' items category by category
RECURSIVE selectPerCategory(_, _, _, _, _)
selectPerCategory(availableCategories, index, amountOf, searchTerms, allowDuplicates) ==
    IF index >= Len(availableCategories) THEN {<<>>}
    ELSE LET cat == availableCategories[index + 1]
         IN  {items \o rest :
                items \in getRandomItems(filteredItems(cat, searchTerms),
                                         amountOf[index], cat, allowDuplicates),
                rest \in selectPerCategory(availableCategories, index + 1, amountOf,
                                           searchTerms, allowDuplicates)}

selectDistributedMode(amount, categories, searchTerms, allowDuplicates) ==
    LET availableCategories == buildSearchFilteredCategories(categories, searchTerms)
        amountOf == [index \in 0..(Len(availableCategories) - 1) |->
                        categoryAmount(amount, Len(availableCategories), index)]
    IN  IF Len(availableCategories) = 0 THEN {<<>>}
        ELSE selectPerCategory(availableCategories, 0, amountOf, searchTerms,
                               allowDuplicates)

selectEachMode_shared(amount, categories, searchTerms, allowDuplicates) ==
    selectDistributedMode(amount, categories, searchTerms, allowDuplicates)

selectEachMode(amount, categories, searchTerms, allowDuplicates) ==
    LET availableCategories == buildSearchFilteredCategories(categories, searchTerms)
        amountOf == [index \in 0..(Len(availableCategories) - 1) |-> amount]
    IN  IF Len(availableCategories) = 0 THEN {<<>>}
        ELSE selectPerCategory(availableCategories, 0, amountOf, searchTerms,
                               allowDuplicates)

----------------------------------------------------------------------------
(* callNeko *)

\* return params.amount === 1 && result.length === 1 ? result[0] : result
callNekoResult_anyAmount(params, result) ==
    IF Len(result) = 1 THEN result[1] ELSE Arr(result)

callNekoResult_nullWhenEmpty(params, result) ==
    IF Len(result) = 0 THEN Null
    ELSE IF params.amount = 1 /\ Len(result) = 1 THEN result[1] ELSE Arr(result)

callNekoResult(params, result) ==
    IF params.amount = 1 /\ Len(result) = 1 THEN result[1] ELSE Arr(result)

\* callNeko returns: the result is handed to the caller
finish(params, result) ==
    /\ pc' = "done"
    /\ frame' = [mode |-> "returned", params |-> params, result |-> result,
                 broke |-> FALSE]
    /\ ret' = Return(callNekoResult(params, result))

\* callNeko up to the first draw of selectRandomMode's loop; every other path
\* runs to its return
callNeko(options) ==
    /\ pc = "idle"
    /\ call' = [op |-> "callNeko", args |-> options]
    /\ UNCHANGED <<gate, configuredWith, intentCalls>>
    /\ LET params == parseOptions(options) IN
       IF params.throw THEN
          /\ pc' = "done"
          /\ frame' = frame
          /\ ret' = Throw(params.error, params.reason)
       ELSE IF params.mode = Str(RANDOM) THEN
          LET availableCategories ==
                  buildSearchFilteredCategories(params.actions, params.search)
          IN  IF Len(availableCategories) = 0 THEN finish(params, <<>>)
              ELSE IF Len(availableCategories) = 1 THEN
                  \E result \in getRandomItems(
                          filteredItems(availableCategories[1], params.search),
                          params.amount, availableCategories[1], params.dupe) :
                      finish(params, result)
              ELSE
                  /\ pc' = "random"
                  /\ frame' = [mode |-> "for", params |-> params,
                               availableCategories |-> availableCategories,
                               i |-> 0, result |-> <<>>, usedUrls |-> {}]
                  /\ ret' = ret
       ELSE IF params.mode = Str(DISTRIBUTED) THEN
          \E result \in selectDistributedMode(params.amount, params.actions,
                                              params.search, params.dupe) :
              finish(params, result)
       ELSE IF params.mode = Str(EACH) THEN
          \E result \in selectEachMode(params.amount, params.actions,
                                       params.search, params.dupe) :
              finish(params, result)
       ELSE finish(params, <<>>)

\* the end of one iteration of the for loop: i++, then the loop test
nextIteration(result, usedUrls) ==
    IF frame.i + 1 < frame.params.amount THEN
        /\ pc' = "random"
        /\ frame' = [mode |-> "for", params |-> frame.params,
                     availableCategories |-> frame.availableCategories,
                     i |-> frame.i + 1, result |-> result, usedUrls |-> usedUrls]
        /\ ret' = ret
    ELSE finish(frame.params, result)

\* one iteration of the for loop with duplicates allowed
randomDrawDuplicate ==
    /\ pc = "random"
    /\ frame.mode = "for"
    /\ frame.params.dupe
    /\ \E c \in 1..Len(frame.availableCategories) :
         LET randomCategory == frame.availableCategories[c]
             categoryItems == filteredItems(randomCategory, frame.params.search)
         IN  \E r \in 1..Len(categoryItems) :
                nextIteration(
                    Append(frame.result,
                           createResponseObject(categoryItems[r], randomCategory)),
                    frame.usedUrls)
    /\ UNCHANGED <<gate, call, configuredWith, intentCalls>>

\* the head of one iteration with duplicates disallowed: the category is
\* drawn and the retry loop is entered
randomDrawCategory ==
    /\ pc = "random"
    /\ frame.mode = "for"
    /\ ~frame.params.dupe
    /\ \E c \in 1..Len(frame.availableCategories) :
         frame' = [mode |-> "while", params |-> frame.params,
                   availableCategories |-> frame.availableCategories,
                   i |-> frame.i, result |-> frame.result,
                   usedUrls |-> frame.usedUrls,
                   randomCategory |-> frame.availableCategories[c],
                   attempts |-> 0]
    /\ UNCHANGED <<gate, pc, call, ret, configuredWith, intentCalls>>

canRetry_once(attempts) == attempts < 1

canRetry_unbounded(attempts) == TRUE

\* attempts < CONFIG.MAX_RETRY_ATTEMPTS, the retry loop's bound
canRetry(attempts) == attempts < MAX_RETRY_ATTEMPTS

isUnused_always(url) == TRUE

\* !usedUrls.has(url)
isUnused(url) == url \notin frame.usedUrls

\* one iteration of the retry loop, with what follows when the loop ends
randomAttempt ==
    /\ pc = "random"
    /\ frame.mode = "while"
    /\ canRetry(frame.attempts)
    /\ LET categoryItems == filteredItems(frame.randomCategory, frame.params.search)
       IN  \E r \in 1..Len(categoryItems) :
             LET url == constructFullUrl(categoryItems[r].url) IN
             IF isUnused(url) THEN
                 \* foundUnique: the while loop ends, the iteration ends
                 nextIteration(
                     Append(frame.result,
                            createResponseObject(categoryItems[r], frame.randomCategory)),
                     frame.usedUrls \cup {url})
             ELSE IF canRetry(frame.attempts + 1) THEN
                 /\ frame' = [frame EXCEPT !.attempts = frame.attempts + 1]
                 /\ UNCHANGED <<pc, ret>>
             ELSE
                 \* attempts exhausted, !foundUnique: break
                 /\ pc' = "done"
                 /\ frame' = [mode |-> "returned", params |-> frame.params,
                              result |-> frame.result, broke |-> TRUE,
                              randomCategory |-> frame.randomCategory,
                              attempts |-> frame.attempts + 1]
                 /\ ret' = Return(callNekoResult(frame.params, frame.result))
    /\ UNCHANGED <<gate, call, configuredWith, intentCalls>>

\* the caller takes what the call returned or threw; the next call can start
callReturns ==
    /\ pc = "done"
    /\ pc' = "idle"
    /\ call' = [op |-> "none"]
    /\ ret' = [kind |-> "none"]
    /\ frame' = [mode |-> "none"]
    /\ UNCHANGED <<gate, configuredWith, intentCalls>>

----------------------------------------------------------------------------
(* The calls the environment makes *)

MaxAmount == 3
MaxActions == 2

IntentMetadata ==
    {Undefined, Null, Num(0), Num(1), Bool(FALSE), Bool(TRUE), Num(2), Str(""),
     Str("all"), Arr(<<>>), Arr(<<"anime_name">>),
     Arr(<<"artist_name", " anime_name ", " ">>),
     Arr(<<"source_url", "artist_href">>), Arr(<<"anime_name", "title">>)}

IntentTypes ==
    {Undefined, Num(1), Num(2), Num(3), Str("images"), Str("gifs"), Str("both"),
     Str("video"), Num(4), Str("constructor")}

IntentOptions == [metadata : IntentMetadata, type : IntentTypes]

IntentOptionsFew == [metadata : {Undefined}, type : {Num(1), Str("gifs")}]

\* amounts 0, 1.5, the integers from 1 to MaxAmount, and none (the default, 1)
Amounts == {Undefined, Num(0), Half(3)} \cup {Num(n) : n \in 1..MaxAmount}

\* a category named i times, then the other one named j times, at most
\* MaxActions names in all
ActionArrays ==
    {[k \in 1..(n[1] + n[2]) |-> IF k <= n[1] THEN a ELSE b] :
        a \in {"hug", "waifu"}, b \in {"hug", "waifu"},
        n \in {m \in (0..MaxActions) \X (0..MaxActions) : m[1] + m[2] <= MaxActions}}

Actions ==
    {Undefined, Str("pat"), Arr(<<"hug", "dancing">>)}
    \cup {Arr(a) : a \in ActionArrays}

Searches == {Undefined, Str(<<"z">>), Arr(<<<<" ">>, <<" ", "A">>>>)}

FetchTypes == {Undefined, Num(1), Str("gifs"), Str("constructor")}

Modes == {Undefined, Num(2), Str("each"), Str("toString")}

Dupes == {Undefined, Bool(TRUE)}

\* every combination of the above, and requests whose search is blank
FetchOptions ==
    [amount : Amounts, actions : Actions, search : Searches, type : FetchTypes,
     mode : Modes, dupe : Dupes]
    \cup
    [amount : {Num(2)}, actions : {Arr(<<"hug", "waifu">>)}, search : {Str(<<" ">>)},
     type : {Undefined}, mode : Modes, dupe : Dupes]

FetchOptionsFew ==
    [amount : {Undefined, NaN, Num(2)},
     actions : {Undefined, Str("hug"), Arr(<<"hug", "waifu">>),
                Arr(<<"waifu", "dancing">>)},
     search : {Undefined, Str(<<"b">>)},
     type : {Undefined, Num(1), Str("gifs")},
     mode : {Undefined, Num(2), Str("each")},
     dupe : Dupes]

\* the gate: every intent configuration, a few requests
Next ==
    \/ \E options \in IntentOptions : callNekoIntent(options) /\ UNCHANGED intentCalls
    \/ \E options \in FetchOptionsFew : callNeko(options)
    \/ randomDrawDuplicate
    \/ randomDrawCategory
    \/ randomAttempt
    \/ callNekoActions
    \/ callNekoCount
    \/ callNekoLoad
    \/ callReturns

Spec == Init /\ [][Next]_vars

\* the engine: a few intent configurations, every request
NextEngine ==
    \/ \E options \in IntentOptionsFew : callNekoIntent(options) /\ UNCHANGED intentCalls
    \/ \E options \in FetchOptions : callNeko(options)
    \/ randomDrawDuplicate
    \/ randomDrawCategory
    \/ randomAttempt
    \/ callNekoActions
    \/ callNekoCount
    \/ callNekoLoad
    \/ callReturns

SpecEngine == Init /\ [][NextEngine]_vars

\* callers that each call callNekoIntent once, with valid arguments, in any
\* order: a call is one synchronous run of callNekoIntent, and the event
\* loop runs one call at a time, to completion
MaxCallers == 3

Callers == 1..MaxCallers

IntentOptionsValid ==
    [metadata : {Undefined, Num(0), Arr(<<"anime_name">>)},
     type : {Undefined, Num(1), Str("gifs")}]

InitConcurrent ==
    /\ intentConfig = [active |-> FALSE, metadata |-> Null, type |-> Num(BOTH),
                       allowedCategories |-> VALID_ACTIONS]
    /\ intentLocked = FALSE
    /\ rawGifsData = [obj |-> DATA]
    /\ gifsData = DATA
    /\ pc = "idle"
    /\ call = [op |-> "none"]
    /\ ret = [kind |-> "none"]
    /\ frame = [mode |-> "none"]
    /\ configuredWith = Undefined
    /\ intentCalls \in [Callers -> [options : IntentOptionsValid,
                                    outcome : {[kind |-> "none"]}]]

\* the call of caller c runs
attemptIntent(c) ==
    /\ intentCalls[c].outcome.kind = "none"
    /\ callNekoIntent(intentCalls[c].options)
    /\ intentCalls' = [intentCalls EXCEPT ![c].outcome = ret']

NextConcurrent ==
    \/ \E c \in DOMAIN intentCalls : attemptIntent(c)
    \/ callNekoActions
    \/ callNekoLoad
    \/ callReturns

SpecConcurrent == InitConcurrent /\ [][NextConcurrent]_vars

\* callers that each call callNekoIntent once, some with arguments the call
\* rejects: a field list naming an unknown field, or metadata that is
\* neither 0, 1, false, true, an array, undefined nor null
IntentOptionsMixed ==
    [metadata : {Undefined, Arr(<<"anime_name", "title">>), Num(2)},
     type : {Undefined, Num(1)}]

InitRecover ==
    /\ intentConfig = [active |-> FALSE, metadata |-> Null, type |-> Num(BOTH),
                       allowedCategories |-> VALID_ACTIONS]
    /\ intentLocked = FALSE
    /\ rawGifsData = [obj |-> DATA]
    /\ gifsData = DATA
    /\ pc = "idle"
    /\ call = [op |-> "none"]
    /\ ret = [kind |-> "none"]
    /\ frame = [mode |-> "none"]
    /\ configuredWith = Undefined
    /\ intentCalls \in [Callers -> [options : IntentOptionsMixed,
                                    outcome : {[kind |-> "none"]}]]

SpecRecover == InitRecover /\ [][NextConcurrent]_vars

\* the calls of callNeko alone, run to their end: callNeko is synchronous, so
\* once a call has entered selectRandomMode's loop the engine runs the loop's
\* next step; nothing is assumed about the values Math.random() returns
FetchOptionsDrawn ==
    [amount : {Num(n) : n \in 1..MaxAmount},
     actions : {Str("pat")} \cup {Arr(a) : a \in ActionArrays},
     search : {Undefined, Str(<<"b">>)},
     type : {Undefined},
     mode : Modes,
     dupe : Dupes]

NextFetch ==
    \/ \E options \in FetchOptionsDrawn : callNeko(options)
    \/ randomDrawDuplicate
    \/ randomDrawCategory
    \/ randomAttempt
    \/ callReturns

SpecFetch ==
    /\ Init
    /\ [][NextFetch]_vars
    /\ WF_vars(randomDrawDuplicate)
    /\ WF_vars(randomDrawCategory)
    /\ WF_vars(randomAttempt)

----------------------------------------------------------------------------
(* Properties *)

IsIntentCall == pc = "idle" /\ call'.op = "callNekoIntent"

Returned(op) == pc = "done" /\ call.op = op /\ ret.kind = "return"
Threw(op, error) ==
    pc = "done" /\ call.op = op /\ ret.kind = "throw" /\ ret.error = error

AllowedSet == SeqToSet(intentConfig.allowedCategories)

\* C1: once a callNekoIntent call has succeeded, every later callNekoIntent
\* call, whatever its arguments, throws the ConfigurationError and leaves
\* intentConfig, intentLocked, rawGifsData and gifsData as they were; a call
\* that returns leaves the gate locked, and the lock is never released.
C1_SecondIntentFails ==
    [][/\ (IsIntentCall /\ ret'.kind = "return") => (intentLocked' /\ intentConfig'.active)
       /\ intentLocked => intentLocked'
       /\ (IsIntentCall /\ configuredWith # Undefined) =>
             /\ ret' = Throw("ConfigurationError", "already configured")
             /\ gate' = gate]_vars

C1_Witness ==
    /\ Threw("callNekoIntent", "ConfigurationError")
    /\ ret.reason = "already configured"
    /\ configuredWith # Undefined
    /\ call.args = [metadata |-> Num(0), type |-> Num(1)]

\* the explicit actions of a request, as a list
ExplicitActions(options) ==
    IF options.actions = Undefined \/ options.actions = Null THEN <<>>
    ELSE IF IsArr(options.actions) THEN options.actions.arr
    ELSE <<options.actions.str>>

HasExplicitActions(options) ==
    options.actions # Undefined /\ options.actions # Null

AmountIsValid(options) ==
    \/ options.amount = Undefined
    \/ IsNum(options.amount) /\ options.amount.num >= 1
    \/ IsHalf(options.amount) /\ options.amount.halves >= 2

\* explicit actions, all known, one of them outside the allowed categories
NamesDisallowedAction(options) ==
    /\ HasExplicitActions(options)
    /\ \A a \in SeqToSet(ExplicitActions(options)) : a \in SeqToSet(VALID_ACTIONS)
    /\ \E a \in SeqToSet(ExplicitActions(options)) : a \notin AllowedSet

NamesUnknownAction(options) ==
    /\ HasExplicitActions(options)
    /\ \E a \in SeqToSet(ExplicitActions(options)) : a \notin SeqToSet(VALID_ACTIONS)

\* C2 as stated: with the gate locked, a fetch naming only known categories,
\* one of them not allowed, throws the IntentViolationError; a fetch naming
\* an unknown category throws a ValidationError in every gate state.
C2_AsStated ==
    (pc = "done" /\ call.op = "callNeko") =>
        /\ (intentConfig.active /\ NamesDisallowedAction(call.args)) =>
              (ret.kind = "throw" /\ ret.error = "IntentViolationError")
        /\ NamesUnknownAction(call.args) =>
              (ret.kind = "throw" /\ ret.error = "ValidationError")

\* C2 amended: the IntentViolationError is thrown when the amount is valid
\* (absent, or a finite number >= 1); an invalid amount is reported first,
\* as a ValidationError.  The second half is as stated.
C2_IntentViolation ==
    (pc = "done" /\ call.op = "callNeko") =>
        /\ (intentConfig.active /\ NamesDisallowedAction(call.args)
            /\ AmountIsValid(call.args)) =>
              (ret.kind = "throw" /\ ret.error = "IntentViolationError")
        /\ (intentConfig.active /\ NamesDisallowedAction(call.args)
            /\ ~AmountIsValid(call.args)) =>
              (ret.kind = "throw" /\ ret.error = "ValidationError")
        /\ NamesUnknownAction(call.args) =>
              (ret.kind = "throw" /\ ret.error = "ValidationError")

C2_Witness ==
    /\ Threw("callNeko", "IntentViolationError")
    /\ intentConfig.active
    /\ configuredWith.type = Num(1)
    /\ call.args.actions = Arr(<<"hug", "waifu">>)
    /\ AmountIsValid(call.args)

\* the items a callNeko call handed back
ReturnedItems ==
    IF IsArr(ret.value) THEN ret.value.arr ELSE <<ret.value>>

\* C3: with the gate locked, every item fetch returns (and every item drawn
\* so far) has its action in allowedCategories, and so has every key of
\* count's and loadAll's result and every entry of listActions' result.
C3_OnlyAllowedExposed ==
    intentConfig.active =>
        /\ Returned("callNeko") =>
              \A i \in 1..Len(ReturnedItems) : ReturnedItems[i].action.str \in AllowedSet
        /\ pc = "random" =>
              \A i \in 1..Len(frame.result) : frame.result[i].action.str \in AllowedSet
        /\ Returned("callNekoCount") =>
              \A i \in 1..Len(ret.value.categories) :
                  ret.value.categories[i][1] \in AllowedSet
        /\ Returned("callNekoLoad") => DOMAIN ret.value \subseteq AllowedSet
        /\ Returned("callNekoActions") => SeqToSet(ret.value) \subseteq AllowedSet

C3_Witness ==
    /\ intentConfig.active
    /\ configuredWith.type = Str("gifs")
    /\ Returned("callNeko")
    /\ call.args.actions = Undefined
    /\ Len(ReturnedItems) = 2

\* the documented spellings of the content types
ImageAliases == {Num(1), Str("image"), Str("images")}
AnimatedAliases == {Num(2), Str("gif"), Str("gifs")}

IsImageCategory(c) == c \in IMAGE_CATEGORIES
IsAnimatedCategory(c) == c \notin IMAGE_CATEGORIES

\* C4 as stated: listActions returns every category while the gate is
\* unconfigured, the four image categories after contentType Image, the
\* other categories after contentType Animated, and every category after
\* contentType Both or an unrecognized contentType.
C4_ListActions ==
    Returned("callNekoActions") =>
        ret.value =
            IF configuredWith = Undefined THEN VALID_ACTIONS
            ELSE IF configuredWith.type \in ImageAliases
                 THEN SelectSeq(VALID_ACTIONS, IsImageCategory)
            ELSE IF configuredWith.type \in AnimatedAliases
                 THEN SelectSeq(VALID_ACTIONS, IsAnimatedCategory)
            ELSE VALID_ACTIONS

\* the amount a request asks for, once defaulted and truncated
RequestedAmount(options) ==
    IF options.amount = Undefined THEN 1
    ELSE IF IsNum(options.amount) THEN options.amount.num
    ELSE options.amount.halves \div 2

\* C5 as stated: callNeko called with amount 1 (or no amount, the default)
\* returns one response object, not an array.
C5_SingleObjectForAmountOne ==
    (Returned("callNeko") /\ call.args.amount \in {Undefined, Num(1)}) =>
        ~IsArr(ret.value)

Survivors == buildSearchFilteredCategories(frame.params.actions, frame.params.search)
Pool(category) == filteredItems(category, frame.params.search)

\* the number of places of the result holding the record's response
Occurrences(item, category) ==
    Cardinality({k \in 1..Len(frame.result) :
                    frame.result[k] = createResponseObject(item, category)})

InRandomMode == Returned("callNeko") /\ frame.params.mode = Str(RANDOM)

\* C7: Random mode, duplicates disallowed, one surviving category: the
\* result has min(amount, |pool|) items, each a record of the pool taken at
\* most once, and every record of the pool exactly once when amount >= |pool|.
C7_SingleCategory ==
    (InRandomMode /\ ~frame.params.dupe /\ Len(Survivors) = 1) =>
        LET pool == Pool(Survivors[1]) IN
        /\ Len(frame.result) = Min(frame.params.amount, Len(pool))
        /\ \A j \in 1..Len(pool) : Occurrences(pool[j], Survivors[1]) <= 1
        /\ \A k \in 1..Len(frame.result) :
              \E j \in 1..Len(pool) :
                 frame.result[k] = createResponseObject(pool[j], Survivors[1])
        /\ frame.params.amount >= Len(pool) =>
              \A j \in 1..Len(pool) : Occurrences(pool[j], Survivors[1]) = 1

C7_Witness ==
    /\ InRandomMode
    /\ ~frame.params.dupe
    /\ Len(Survivors) = 1
    /\ Len(Pool(Survivors[1])) = 2
    /\ frame.params.amount = 3
    /\ Len(frame.result) = 2

UrlsDistinct(result) ==
    \A k, l \in 1..Len(result) : k # l => result[k].url # result[l].url

\* C8: Random mode, several surviving categories: with duplicates
\* disallowed the urls of the result are pairwise distinct and the result
\* has at most amount items; with duplicates allowed it has amount items.
C8_SeveralCategories ==
    (InRandomMode /\ Len(Survivors) > 1) =>
        IF frame.params.dupe
        THEN Len(frame.result) = frame.params.amount
        ELSE UrlsDistinct(frame.result) /\ Len(frame.result) <= frame.params.amount

C8_Witness ==
    /\ InRandomMode
    /\ Len(Survivors) > 1
    /\ ~frame.params.dupe
    /\ frame.params.amount = 3
    /\ Len(frame.result) = 3
    /\ frame.result[1].action = frame.result[3].action

UsedUrls(result) == {result[k].url : k \in 1..Len(result)}

HoldsUnused(category) ==
    \E j \in 1..Len(Pool(category)) :
        Str(constructFullUrl(Pool(category)[j].url)) \notin UsedUrls(frame.result)

HoldsUsed(category) ==
    \E j \in 1..Len(Pool(category)) :
        Str(constructFullUrl(Pool(category)[j].url)) \in UsedUrls(frame.result)

\* C9: Random mode, several surviving categories, duplicates disallowed:
\* the result is shorter than amount only when a draw made all
\* MAX_RETRY_ATTEMPTS attempts in its category without an unused url; the
\* call then returns at once, without an error, what was collected so far.
C9_TruncationInvariant ==
    (InRandomMode /\ Len(Survivors) > 1 /\ ~frame.params.dupe) =>
        /\ Len(frame.result) < frame.params.amount <=> frame.broke
        /\ frame.broke =>
              /\ frame.attempts = MAX_RETRY_ATTEMPTS
              /\ HoldsUsed(frame.randomCategory)
              /\ ret.value = Arr(frame.result)

C9_TruncationStep ==
    (pc = "random" /\ pc' = "done" /\ frame'.broke) =>
        /\ frame.mode = "while"
        /\ frame.attempts + 1 = MAX_RETRY_ATTEMPTS
        /\ frame'.result = frame.result
        /\ ret' = Return(Arr(frame.result))

C9_SilentTruncation == []C9_TruncationInvariant /\ [][C9_TruncationStep]_vars

C9_Witness ==
    /\ InRandomMode
    /\ Len(Survivors) > 1
    /\ ~frame.params.dupe
    /\ frame.broke
    /\ Len(frame.result) < frame.params.amount
    /\ \E i \in 1..Len(Survivors) : HoldsUnused(Survivors[i])

\* the share of the i-th surviving category (0-based) and what it contributes
Share(amount, n, i) == (amount \div n) + (IF i < amount % n THEN 1 ELSE 0)

Contribution(amount, n, i, poolSize, dupe) ==
    IF dupe THEN Share(amount, n, i) ELSE Min(Share(amount, n, i), poolSize)

RECURSIVE SumContributions(_, _, _, _, _)
SumContributions(amount, survivors, i, searchPool(_), dupe) ==
    IF i >= Len(survivors) THEN 0
    ELSE Contribution(amount, Len(survivors), i, Len(searchPool(survivors[i + 1])), dupe)
         + SumContributions(amount, survivors, i + 1, searchPool, dupe)

CountOfAction(result, category) ==
    Cardinality({k \in 1..Len(result) : result[k].action = Str(category)})

PositionOf(survivors, action) ==
    CHOOSE i \in 1..Len(survivors) : Str(survivors[i]) = action

InDistributedMode == Returned("callNeko") /\ frame.params.mode = Str(DISTRIBUTED)

\* C10: Distributed mode with n surviving categories in request order: the
\* i-th contributes min(share, |pool|) items without duplicates and share
\* items with, share being floor(amount/n) + 1 for i < amount mod n and
\* floor(amount/n) otherwise; the items come category by category; the
\* total is at most amount, and is amount when no pool is below its share.
C10_DistributedShares ==
    InDistributedMode =>
        LET n == Len(Survivors)
            amount == frame.params.amount
            dupe == frame.params.dupe
        IN  /\ \A i \in 0..(n - 1) :
                  CountOfAction(frame.result, Survivors[i + 1]) =
                      Contribution(amount, n, i, Len(Pool(Survivors[i + 1])), dupe)
            /\ Len(frame.result) = SumContributions(amount, Survivors, 0, Pool, dupe)
            /\ \A k, l \in 1..Len(frame.result) :
                  k < l => PositionOf(Survivors, frame.result[k].action)
                            <= PositionOf(Survivors, frame.result[l].action)
            /\ Len(frame.result) <= amount
            /\ (\A i \in 0..(n - 1) : Len(Pool(Survivors[i + 1])) >= Share(amount, n, i))
                  => (n > 0 => Len(frame.result) = amount)
            /\ ~dupe => UrlsDistinct(frame.result)

C10_Witness ==
    /\ InDistributedMode
    /\ Survivors = <<"waifu", "hug">>
    /\ frame.params.amount = 3
    /\ ~frame.params.dupe
    /\ CountOfAction(frame.result, "waifu") = 2
    /\ CountOfAction(frame.result, "hug") = 1

InEachMode == Returned("callNeko") /\ frame.params.mode = Str(EACH)

EachContribution(amount, poolSize, dupe) ==
    IF dupe THEN amount ELSE Min(amount, poolSize)

RECURSIVE SumEach(_, _, _, _)
SumEach(amount, survivors, i, dupe) ==
    IF i > Len(survivors) THEN 0
    ELSE EachContribution(amount, Len(Pool(survivors[i])), dupe)
         + SumEach(amount, survivors, i + 1, dupe)

\* C11: Each mode with n surviving categories in request order: each one
\* contributes min(amount, |pool|) items when duplicates are disallowed and
\* amount items when allowed, the items come category by category, the
\* total is the sum of the contributions, and it is amount * n when every
\* pool has at least amount records.
C11_EachContributions ==
    InEachMode =>
        LET n == Len(Survivors)
            amount == frame.params.amount
            dupe == frame.params.dupe
        IN  /\ \A i \in 1..n :
                  CountOfAction(frame.result, Survivors[i]) =
                      EachContribution(amount, Len(Pool(Survivors[i])), dupe)
            /\ \A k \in 1..Len(frame.result) :
                  \E i \in 1..n : frame.result[k].action = Str(Survivors[i])
            /\ Len(frame.result) = SumEach(amount, Survivors, 1, dupe)
            /\ \A k, l \in 1..Len(frame.result) :
                  k < l => PositionOf(Survivors, frame.result[k].action)
                            <= PositionOf(Survivors, frame.result[l].action)
            /\ (\A i \in 1..n : Len(Pool(Survivors[i])) >= amount)
                  => Len(frame.result) = amount * n
            /\ ~dupe => UrlsDistinct(frame.result)

C11_Witness ==
    /\ InEachMode
    /\ Survivors = <<"waifu", "hug">>
    /\ frame.params.amount = 2
    /\ ~frame.params.dupe
    /\ Len(frame.result) = 4
    /\ frame.result[1].action = Str("waifu")
    /\ frame.result[3].action = Str("hug")

Elements(s) == {s[i] : i \in DOMAIN s}

\* every item the state shows: returned by fetch, drawn so far, or in
\* loadAll's result
ProducedItems ==
    IF Returned("callNeko") THEN Elements(ReturnedItems)
    ELSE IF pc = "random" THEN Elements(frame.result)
    ELSE IF Returned("callNekoLoad")
         THEN UNION {Elements(ret.value[c]) : c \in DOMAIN ret.value}
    ELSE {}

MetadataKeys(item) == DOMAIN item \ {"url", "action", "type"}

FieldsOfKind(type) ==
    IF type = Num(IMAGE) THEN {"artist_href", "artist_name", "source_url"}
    ELSE {"anime_name"}

\* the fields the metadata argument of the successful configureIntent asks for
PolicyFields ==
    IF configuredWith.metadata \in {Num(0), Bool(FALSE)} THEN {}
    ELSE IF IsArr(configuredWith.metadata)
         THEN {trim(f) : f \in Elements(configuredWith.metadata.arr)}
    ELSE {"artist_href", "artist_name", "source_url", "anime_name"}

\* C12: every item produced by fetch or loadAll, in every gate state, has
\* its metadata keys among the fields of the item's kind; once the gate is
\* locked they are also within the locked policy: none under None, among
\* the listed names under Fields.
C12_MetadataWithinPolicy ==
    \A item \in ProducedItems :
        /\ MetadataKeys(item) \subseteq FieldsOfKind(item.type)
        /\ item.type = Num(getContentType(item.action.str))
        /\ intentConfig.active => MetadataKeys(item) \subseteq PolicyFields

C12_Witness ==
    /\ Returned("callNekoLoad")
    /\ configuredWith # Undefined
    /\ configuredWith.metadata = Arr(<<"artist_name", " anime_name ", " ">>)
    /\ DOMAIN ret.value = {"hug", "pat", "waifu", "neko"}
    /\ MetadataKeys(ret.value["waifu"][1]) = {"artist_name"}
    /\ MetadataKeys(ret.value["hug"][1]) = {"anime_name"}

\* a configureIntent call that found the gate unconfigured has just ended
FirstIntentCall ==
    /\ pc = "done"
    /\ call.op = "callNekoIntent"
    /\ ~(ret.kind = "throw" /\ ret.reason = "already configured")

KnownFields == {"artist_href", "artist_name", "source_url", "anime_name"}

\* the fields kept for the content type the gate resolved
FieldsOfType(type) ==
    IF type = Num(IMAGE) THEN {"artist_href", "artist_name", "source_url"}
    ELSE IF type = Num(GIF) THEN {"anime_name"}
    ELSE IF type = Num(BOTH) THEN KnownFields
    ELSE {}

ResolvedAsDocumented(type) ==
    IF type \in ImageAliases THEN intentConfig.type = Num(IMAGE)
    ELSE IF type \in AnimatedAliases THEN intentConfig.type = Num(GIF)
    ELSE IF type \in {Undefined, Num(3), Str("both"), Str("video"), Num(4)}
         THEN intentConfig.type = Num(BOTH)
    ELSE TRUE

RequestedNames(metadata) == {trim(f) : f \in Elements(metadata.arr)} \ {""}

EffectiveType(options) ==
    IF options.type \in ImageAliases THEN IMAGE
    ELSE IF options.type \in AnimatedAliases THEN GIF
    ELSE BOTH

\* the action list of a request: the named actions, or the visible categories
ResolvedActions(options) ==
    IF HasExplicitActions(options) THEN ExplicitActions(options)
    ELSE IF intentConfig.active THEN intentConfig.allowedCategories
    ELSE VALID_ACTIONS

KindMatches(category, type) == type = BOTH \/ getContentType(category) = type

\* the categories of the action list whose kind matches the effective type
Remaining(options) ==
    LET matches(category) == KindMatches(category, EffectiveType(options))
    IN  SelectSeq(ResolvedActions(options), matches)

\* the amount and the actions of the request pass their own validation
PassesEarlierChecks(options) ==
    /\ AmountIsValid(options)
    /\ ~NamesUnknownAction(options)
    /\ ~(intentConfig.active /\ NamesDisallowedAction(options))

\* C14 as stated: a fetch whose amount and actions are valid keeps the
\* categories of its action list whose kind matches the effective type; it
\* throws the ValidationError exactly when none remains, and otherwise every
\* item it returns is of a remaining category and of the effective type.
C14_TypeFilter ==
    (pc = "done" /\ call.op = "callNeko" /\ PassesEarlierChecks(call.args)) =>
        IF Remaining(call.args) = <<>>
        THEN ret.kind = "throw" /\ ret.error = "ValidationError"
        ELSE /\ ret.kind = "return"
             /\ frame.params.actions = Remaining(call.args)
             /\ \A item \in Elements(ReturnedItems) :
                   /\ Includes(Remaining(call.args), item.action.str)
                   /\ KindMatches(item.action.str, EffectiveType(call.args))
                   /\ item.type = Num(getContentType(item.action.str))

Made == {c \in DOMAIN intentCalls : intentCalls[c].outcome.kind # "none"}
Winners == {c \in DOMAIN intentCalls : intentCalls[c].outcome.kind = "return"}

\* the gate and the catalog a lone callNekoIntent(options) leaves
GateOf(options) ==
    [active |-> TRUE,
     metadata |-> narrowMetadata(
                      normalizeMetadata(options.metadata, normalizeType(options.type))[2],
                      normalizeType(options.type)),
     type |-> normalizeType(options.type),
     allowedCategories |-> allowedCategoriesFor(normalizeType(options.type))]

CatalogOf(options) ==
    [c \in {k \in DOMAIN DATA :
              normalizeType(options.type) = Num(BOTH)
              \/ Num(getContentType(k)) = normalizeType(options.type)} |-> DATA[c]]

\* C15: of the configureIntent calls made by several callers on an
\* unconfigured gate, each with valid arguments, exactly one returns and
\* every other one throws the ConfigurationError; the gate and the pruned
\* catalog are the ones the winner's arguments give.
C15_OneWinner ==
    /\ Cardinality(Winners) <= 1
    /\ Made # {} => Cardinality(Winners) = 1
    /\ \A c \in Made \ Winners :
          intentCalls[c].outcome = Throw("ConfigurationError", "already configured")
    /\ \A c \in Winners :
          /\ intentLocked
          /\ intentConfig = GateOf(intentCalls[c].options)
          /\ gifsData = CatalogOf(intentCalls[c].options)
          /\ rawGifsData = Null
    /\ Made = {} => (~intentLocked /\ ~intentConfig.active /\ gifsData = DATA)

C15_Witness ==
    /\ Made = Callers
    /\ Winners = {2}
    /\ intentCalls[1].options # intentCalls[2].options
    /\ intentCalls[3].options # intentCalls[2].options
    /\ intentCalls[2].options = [metadata |-> Num(0), type |-> Num(1)]
    /\ DOMAIN gifsData = {"waifu", "neko"}

\* the responses of the pool of a category, in the catalog's order
StoredOrder(category) ==
    [i \in DOMAIN Pool(category) |-> createResponseObject(Pool(category)[i], category)]

ItemsOf(result, category) ==
    LET ofCategory(item) == item.action = Str(category)
    IN  SelectSeq(result, ofCategory)

PermutationsOf(s) ==
    {[i \in 1..Len(s) |-> s[p[i]]] :
        p \in {q \in [1..Len(s) -> 1..Len(s)] :
                 \A a, b \in 1..Len(s) : a # b => q[a] # q[b]}}

\* a returned fetch that sampled every surviving category once, without
\* duplicates
SamplesPerCategory ==
    /\ Returned("callNeko")
    /\ ~frame.params.dupe
    /\ \/ frame.params.mode \in {Str(EACH), Str(DISTRIBUTED)}
       \/ frame.params.mode = Str(RANDOM) /\ Len(Survivors) = 1

\* the count asked of the i-th surviving category (from 1)
RequestedOf(i) ==
    IF frame.params.mode = Str(DISTRIBUTED)
    THEN Share(frame.params.amount, Len(Survivors), i - 1)
    ELSE frame.params.amount

\* C16 as stated: without duplicates, when the count asked of a category is
\* at least the size of its pool, every permutation of the pool is an
\* output the sampling can give.
C16_AsStated ==
    SamplesPerCategory =>
        \A i \in 1..Len(Survivors) :
            RequestedOf(i) >= Len(Pool(Survivors[i])) =>
                PermutationsOf(StoredOrder(Survivors[i])) \subseteq
                    getRandomItems(Pool(Survivors[i]), RequestedOf(i),
                                   Survivors[i], FALSE)

\* C16 amended: without duplicates, when the count asked of a category is
\* at least the size of its pool, the sampling returns every record of the
\* pool once, in the catalog's stored order: that is its only output, and
\* the items of the category in the result are in that order.
C16_StoredOrder ==
    SamplesPerCategory =>
        \A i \in 1..Len(Survivors) :
            RequestedOf(i) >= Len(Pool(Survivors[i])) =>
                /\ getRandomItems(Pool(Survivors[i]), RequestedOf(i),
                                  Survivors[i], FALSE)
                       = {StoredOrder(Survivors[i])}
                /\ ItemsOf(frame.result, Survivors[i]) = StoredOrder(Survivors[i])

C16_Witness ==
    /\ SamplesPerCategory
    /\ frame.params.mode = Str(EACH)
    /\ frame.params.amount = 3
    /\ Survivors = <<"hug", "waifu">>
    /\ Len(Pool("hug")) = 2
    /\ frame.result = StoredOrder("hug") \o StoredOrder("waifu")

\* the catalog record an item was made from
RecordOf(item) ==
    CHOOSE r \in Elements(DATA[item.action.str]) :
        Str(constructFullUrl(r.url)) = item.url

\* the fields projected for an item: those of its kind, within the locked
\* policy once the gate is locked
ProjectedFields(item) ==
    IF intentConfig.active
    THEN FieldsOfKind(item.type) \cap PolicyFields
    ELSE FieldsOfKind(item.type)

\* C17 as stated: the metadata keys of a response item are the projected
\* fields of its kind that the catalog record has; a field the record lacks
\* is not a key of the item.
C17_AsStated ==
    \A item \in ProducedItems :
        MetadataKeys(item) = ProjectedFields(item) \cap DOMAIN RecordOf(item)

\* C17 amended: the metadata keys of a response item are the projected
\* fields of its kind, whether the catalog record has them or not; a key
\* carries the record's value, and the value undefined (never null) when
\* the record lacks the field.
C17_ProjectedKeys ==
    \A item \in ProducedItems :
        /\ MetadataKeys(item) = ProjectedFields(item)
        /\ \A k \in MetadataKeys(item) :
              /\ item[k] # Null
              /\ item[k] = IF k \in DOMAIN RecordOf(item)
                           THEN RecordOf(item)[k] ELSE Undefined

C17_Witness ==
    /\ Returned("callNekoLoad")
    /\ ~intentConfig.active
    /\ "anime_name" \notin DOMAIN DATA["hug"][2]
    /\ "anime_name" \in DOMAIN ret.value["hug"][2]
    /\ ret.value["hug"][2].anime_name = Undefined
    /\ ret.value["hug"][1].anime_name = DATA["hug"][1].anime_name

\* JavaScript's falsy values other than undefined and null
IsFalsy(v) == v \in {Num(0), Bool(FALSE), Str(""), NaN}

\* the policy All for the content type the gate resolved: the fields of the
\* one kind for Image and for Animated, no restriction otherwise
ExpectedAll ==
    IF intentConfig.type = Num(IMAGE) THEN Arr(METADATA_FIELDS_IMAGE)
    ELSE IF intentConfig.type = Num(GIF) THEN Arr(METADATA_FIELDS_GIF)
    ELSE Null

LockedWith(metadata) ==
    /\ ret.kind = "return"
    /\ intentLocked
    /\ intentConfig.active
    /\ configuredWith = call.args
    /\ ResolvedAsDocumented(call.args.type)
    /\ intentConfig.metadata = metadata

\* C18 as stated: with a metadata argument that is not a list,
\* configureIntent locks the gate with All when the argument is absent or
\* null, with None when it is any falsy value, with All when it is any
\* truthy value, All being narrowed to the fields of the one kind for
\* Image and for Animated.
C18_AsStated ==
    (FirstIntentCall /\ ~IsArr(call.args.metadata)) =>
        IF call.args.metadata \in {Undefined, Null} THEN LockedWith(ExpectedAll)
        ELSE IF IsFalsy(call.args.metadata) THEN LockedWith(Arr(<<>>))
        ELSE LockedWith(ExpectedAll)

\* C18 amended: absent, null, 1 and true give All (narrowed as stated), 0
\* and false give None, and the gate is locked; every other value that is
\* not a list makes the call throw the ConfigurationError and leaves the
\* gate unconfigured.
C18_MetadataShapes ==
    (FirstIntentCall /\ ~IsArr(call.args.metadata)) =>
        IF call.args.metadata \in {Undefined, Null, Num(1), Bool(TRUE)}
        THEN LockedWith(ExpectedAll)
        ELSE IF call.args.metadata \in {Num(0), Bool(FALSE)}
        THEN LockedWith(Arr(<<>>))
        ELSE /\ ret = Throw("ConfigurationError", "metadata shape")
             /\ ~intentLocked
             /\ ~intentConfig.active
             /\ configuredWith = Undefined
             /\ gifsData = DATA

C18_Witness ==
    /\ FirstIntentCall
    /\ call.args = [metadata |-> Bool(TRUE), type |-> Str("gifs")]
    /\ LockedWith(Arr(<<"anime_name">>))

\* the items of the running or returned fetch
FetchedItems ==
    IF Returned("callNeko") \/ pc = "random" THEN Elements(frame.result) ELSE {}

SameLetter(a, b) ==
    \/ a = b
    \/ {a, b} = {"a", "A"}
    \/ {a, b} = {"b", "B"}

\* term occurs in text, letter case ignored
ContainsIgnoringCase(text, term) ==
    \E i \in 1..(Len(text) - Len(term) + 1) :
        \A j \in 1..Len(term) : SameLetter(text[i + j - 1], term[j])

\* the field a search looks at: artist name for Image, source-work name for
\* Animated
SearchedField(item) ==
    IF item.type = Num(IMAGE) THEN "artist_name" ELSE "anime_name"

\* C19: when the normalized search term list is not empty, every item of a
\* fetch, in every mode, is made from a record that has the searched field
\* of its kind, the field containing one of the terms, letter case ignored;
\* when the list is empty the pool of every category of the request is the
\* whole category.
C19_SearchFilter ==
    /\ \A item \in FetchedItems :
          frame.params.search # <<>> =>
              /\ SearchedField(item) \in DOMAIN RecordOf(item)
              /\ \E t \in Elements(frame.params.search) :
                    ContainsIgnoringCase(RecordOf(item)[SearchedField(item)].str, t)
    /\ (Returned("callNeko") /\ frame.params.search = <<>>) =>
          /\ \A c \in Elements(frame.params.actions) \cap DOMAIN gifsData :
                Pool(c) = gifsData[c]
          /\ (frame.params.mode = Str(EACH) /\ ~frame.params.dupe) =>
                \A c \in Elements(frame.params.actions) \cap DOMAIN gifsData :
                    CountOfAction(frame.result, c)
                        = Min(frame.params.amount, Len(gifsData[c]))
    /\ Returned("callNeko") =>
          /\ \A t \in Elements(frame.params.search) :
                t # <<>> /\ Head(t) # " " /\ t[Len(t)] # " "
          /\ call.args.search \in {Undefined, Str(<<" ">>)} => frame.params.search = <<>>

C19_Witness ==
    /\ Returned("callNeko")
    /\ call.args.search = Arr(<<<<" ">>, <<" ", "A">>>>)
    /\ frame.params.search = <<<<"A">>>>
    /\ frame.params.mode = Str(EACH)
    /\ frame.params.amount = 2
    /\ frame.params.actions = <<"hug", "waifu">>
    /\ Len(frame.result) = 2
    /\ RecordOf(frame.result[1]) = DATA["hug"][1]
    /\ RecordOf(frame.result[2]) = DATA["waifu"][1]

\* the record passes the search: no term, or its searched field is present
\* and contains one of the terms
PassesSearch(record, category, terms) ==
    \/ terms = <<>>
    \/ LET field == IF category \in IMAGE_CATEGORIES THEN "artist_name"
                    ELSE "anime_name"
       IN  /\ field \in DOMAIN record
           /\ \E t \in Elements(terms) : ContainsIgnoringCase(record[field].str, t)

\* the request passes validation, and none of its categories has a record
\* passing its search
ValidatedWithoutPool(options) ==
    /\ ~parseOptions(options).throw
    /\ \A c \in Elements(parseOptions(options).actions) :
          \/ c \notin DOMAIN gifsData
          \/ \A r \in Elements(gifsData[c]) :
                ~PassesSearch(r, c, parseOptions(options).search)

ReadOperations == {"callNeko", "callNekoActions", "callNekoCount", "callNekoLoad"}

\* C21: callNeko, callNekoActions, callNekoCount and callNekoLoad leave
\* intentConfig, intentLocked, rawGifsData and gifsData as they were at
\* every step, whether they return or throw, before and after the gate is
\* locked; the only step that changes any of them is a callNekoIntent call
\* that starts on the unlocked gate and returns.
C21_ReadOnlyOperations ==
    [][/\ (call'.op \in ReadOperations \/ call.op \in ReadOperations) => gate' = gate
       /\ gate' # gate => (IsIntentCall /\ ~intentLocked /\ ret'.kind = "return")]_vars

C21_Witness ==
    /\ pc = "done"
    /\ call.op = "callNeko"
    /\ ret.kind = "throw"
    /\ ret.error = "IntentViolationError"
    /\ intentLocked
    /\ configuredWith # Undefined
    /\ intentConfig = GateOf(configuredWith)
    /\ gifsData = CatalogOf(configuredWith)
    /\ rawGifsData = Null

\* a callNeko call is inside selectRandomMode's loop
InLoop == pc = "random"

\* the loop's counters: i draws are done, each gave one item, and the retry
\* loop of the draw under way has made fewer than MAX_RETRY_ATTEMPTS attempts
LoopBounded ==
    /\ InLoop =>
          /\ frame.i < frame.params.amount
          /\ Len(frame.result) = frame.i
          /\ frame.mode = "while" =>
                (~frame.params.dupe /\ frame.attempts < MAX_RETRY_ATTEMPTS)
    /\ (pc = "done" /\ call.op = "callNeko" /\ ret.kind = "return") =>
          /\ frame.broke =>
                (frame.attempts = MAX_RETRY_ATTEMPTS
                 /\ Len(frame.result) < frame.params.amount)
          /\ (frame.params.mode = Str(RANDOM)) =>
                Len(frame.result) <= frame.params.amount
          /\ (frame.params.mode = Str(DISTRIBUTED)) =>
                Len(frame.result) <= frame.params.amount
          /\ (frame.params.mode = Str(EACH)) =>
                Len(frame.result) <= frame.params.amount * Len(frame.params.actions)

\* the steps the loop has left, at most: MAX_RETRY_ATTEMPTS attempts and the
\* draw of the category for each draw not yet made, less what the draw
\* under way has used
StepsLeft ==
    IF ~InLoop THEN 0
    ELSE (frame.params.amount - frame.i) * (MAX_RETRY_ATTEMPTS + 1)
         - (IF frame.mode = "while" THEN 1 + frame.attempts ELSE 0)

\* C22: every callNeko call ends.  A call that enters selectRandomMode's
\* loop leaves it, returning: the loop makes at most amount draws, a draw
\* with duplicates disallowed makes at most MAX_RETRY_ATTEMPTS (50) attempts,
\* and every step of the loop lowers the number of steps left; every other
\* path returns in the step that starts it, with a result whose length is
\* bounded by the amount and the number of categories.
C22_FetchTerminates ==
    /\ []LoopBounded
    /\ [][InLoop => (StepsLeft' < StepsLeft /\ StepsLeft' >= 0)]_vars
    /\ (InLoop ~> (pc = "done" /\ call.op = "callNeko" /\ ret.kind = "return"))

C22_Witness ==
    /\ pc = "done"
    /\ call.op = "callNeko"
    /\ ret.kind = "return"
    /\ frame.broke
    /\ frame.attempts = MAX_RETRY_ATTEMPTS
    /\ ~frame.params.dupe
    /\ frame.params.amount = 3
    /\ Len(frame.result) = 2

\* the arguments name an unknown metadata field / give metadata a shape
\* callNekoIntent rejects
NamesUnknownField(options) ==
    /\ IsArr(options.metadata)
    /\ \E f \in Elements(options.metadata.arr) :
          trim(f) # "" /\ trim(f) \notin Elements(allValidFields)

MalformedMetadata(options) ==
    /\ ~IsArr(options.metadata)
    /\ options.metadata \notin
          {Undefined, Null, Num(0), Num(1), Bool(FALSE), Bool(TRUE)}

RejectedOnArguments ==
    {c \in Made :
        intentCalls[c].outcome \in
            {Throw("ConfigurationError", "invalid metadata fields"),
             Throw("ConfigurationError", "metadata shape")}}

ValidCallsMade ==
    {c \in Made : ~NamesUnknownField(intentCalls[c].options)
                  /\ ~MalformedMetadata(intentCalls[c].options)}

\* C23: a callNekoIntent call that throws on its arguments (an unknown
\* metadata field name, or metadata of a malformed shape) leaves the gate
\* unlocked and inactive and the catalog whole, with rawGifsData kept; so
\* however many such calls came first, the first call made with valid
\* arguments returns, locks the gate and prunes the catalog by its own
\* arguments, and only the calls after it throw 'already configured'.
C23_FailedIntentLeavesGateOpen ==
    /\ \A c \in Made :
          (NamesUnknownField(intentCalls[c].options)
           \/ MalformedMetadata(intentCalls[c].options)) =>
              /\ intentCalls[c].outcome.kind = "throw"
              /\ intentCalls[c].outcome.error = "ConfigurationError"
    /\ ValidCallsMade = {} =>
          /\ RejectedOnArguments = Made
          /\ ~intentLocked
          /\ intentConfig = [active |-> FALSE, metadata |-> Null, type |-> Num(BOTH),
                             allowedCategories |-> VALID_ACTIONS]
          /\ gifsData = DATA
          /\ rawGifsData = [obj |-> DATA]
    /\ ValidCallsMade # {} =>
          /\ Cardinality(Winners) = 1
          /\ Winners \subseteq ValidCallsMade
          /\ \A c \in Winners :
                /\ intentLocked
                /\ intentConfig = GateOf(intentCalls[c].options)
                /\ gifsData = CatalogOf(intentCalls[c].options)
                /\ rawGifsData = Null
          /\ \A c \in Made \ (Winners \cup RejectedOnArguments) :
                intentCalls[c].outcome = Throw("ConfigurationError", "already configured")

C23_Witness ==
    /\ Made = Callers
    /\ intentCalls[1].outcome = Throw("ConfigurationError", "invalid metadata fields")
    /\ intentCalls[2].outcome = Throw("ConfigurationError", "metadata shape")
    /\ Winners = {3}
    /\ intentCalls[3].options = [metadata |-> Undefined, type |-> Num(1)]
    /\ intentLocked
    /\ gifsData = CatalogOf(intentCalls[3].options)

\* the categories the request names, each once, that hold a record passing
\* the search
SurvivingNamed ==
    {c \in Elements(frame.params.actions) :
        /\ c \in DOMAIN gifsData
        /\ \E r \in Elements(gifsData[c]) : PassesSearch(r, c, frame.params.search)}

FirstNamedAt(c) ==
    CHOOSE k \in 1..Len(frame.params.actions) :
        /\ frame.params.actions[k] = c
        /\ \A m \in 1..(k - 1) : frame.params.actions[m] # c

\* the place (0-based) of the category among the surviving ones, in the
\* order in which the request first names them
RankNamed(c) ==
    Cardinality({d \in SurvivingNamed : FirstNamedAt(d) < FirstNamedAt(c)})

NamesRepeated ==
    Len(frame.params.actions) > Cardinality(Elements(frame.params.actions))

\* C24: a fetch with duplicates disallowed holds no catalog record twice,
\* in Random, Distributed and Each mode alike and also when the request
\* names a category more than once; a category named several times is one
\* surviving category: Distributed divides the amount by the number of
\* distinct surviving categories and Each takes min(amount, |pool|) from
\* each of them once.
C24_NoRecordTwice ==
    (Returned("callNeko") /\ ~frame.params.dupe) =>
        LET n == Cardinality(SurvivingNamed)
            amount == frame.params.amount
        IN  /\ UrlsDistinct(frame.result)
            /\ \A c \in DOMAIN gifsData : \A j \in 1..Len(gifsData[c]) :
                  Occurrences(gifsData[c][j], c) <= 1
            /\ \A k \in 1..Len(frame.result) :
                  frame.result[k].action.str \in SurvivingNamed
            /\ frame.params.mode = Str(DISTRIBUTED) =>
                  /\ Len(frame.result) <= amount
                  /\ \A c \in SurvivingNamed :
                        CountOfAction(frame.result, c) =
                            Min(Share(amount, n, RankNamed(c)), Len(Pool(c)))
            /\ frame.params.mode = Str(EACH) =>
                  \A c \in SurvivingNamed :
                      CountOfAction(frame.result, c) = Min(amount, Len(Pool(c)))
            /\ frame.params.mode = Str(RANDOM) =>
                  /\ Len(frame.result) <= amount
                  /\ n = 1 => \A c \in SurvivingNamed :
                                 Len(frame.result) = Min(amount, Len(Pool(c)))

C24_Witness ==
    /\ InDistributedMode
    /\ ~frame.params.dupe
    /\ frame.params.actions = <<"hug", "hug">>
    /\ frame.params.amount = 3
    /\ NamesRepeated
    /\ Len(frame.result) = 2
    /\ frame.result[1] # frame.result[2]

====
